---- MODULE Spec2Model ----
(***************************************************************************)
(* A model of lmhttpd.hpp (namespace lmh): the allow-list filter, the      *)
(* request dispatcher of WebServer, the per-connection state machine of    *)
(* DynamicController::handleRequest and the completion handler.            *)
(*                                                                         *)
(* libmicrohttpd is the environment.  It invokes request_handler any       *)
(* number of times for one request (with or without upload data), accepts  *)
(* or refuses MHD_queue_response, stops invoking the handler once it       *)
(* returned MHD_NO, and signals completion once per request.               *)
(***************************************************************************)
EXTENDS Integers, Sequences, FiniteSets, TLC

\* ------------------------------------------------------------ constants

MHD_NO == 0
MHD_YES == 1
MHD_HTTP_OK == 200
MHD_HTTP_FORBIDDEN == 403
MHD_HTTP_NOT_FOUND == 404

\* ------------------------------------------------------------ bounds

\* Longest allow-list explored by the allow-list specification.
MaxAllowed == 2
\* Largest number of registered controllers.
MaxControllers == 2
\* Largest wait ceiling (DynamicController::waiting_loops, 300 in the source).
MaxWaitingLoops == 2
\* Largest number of request_handler invocations the transport makes for
\* one request.
MaxInvocations == 3

\* ------------------------------------------------------------ input sets

ConnIds == {"c1", "c2"}

\* Entries of options_t::allowed_ips.
IpTokens == {"*", "all", "ALL", "10.0.0.1", "10.0.0.2", ""}

\* Allow-lists a server is configured with in the connection specification.
AllowConfigs == { <<"*">>, <<"all">>, <<"10.0.0.1">>, <<"">> }

\* Peer descriptors: what MHD_get_connection_info gives for the client.
\* has = FALSE stands for ci == nullptr or ci->client_addr == nullptr.
Peers ==
    { [has |-> FALSE, sa_family |-> "AF_UNSPEC", addr |-> <<>>],
      [has |-> TRUE, sa_family |-> "AF_INET", addr |-> <<10, 0, 0, 1>>],
      [has |-> TRUE, sa_family |-> "AF_INET6", addr |-> <<0, 0, 0, 0, 0, 0, 0, 1>>],
      [has |-> TRUE, sa_family |-> "AF_UNIX", addr |-> <<>>] }

Paths == {"/", "/missing"}
Methods == {"GET", "POST"}

\* Registered controllers: a null shared_ptr, or a DynamicController whose
\* validPath is one of two predicates.
NullController == "null"
ControllerKinds == {NullController, "root", "post"}

\* What a user's createResponse may produce: a status code, the body written
\* to the stream and the header list.  MHD_NO is the abort sentinel, and
\* MHD_YES the default response_code of ResponseParams.
OneHeader == << <<"X-A", "1">> >>
TwoHeaders == << <<"X-A", "1">>, <<"X-A", "1">> >>
BuildResults ==
    { [response_code |-> MHD_NO, body |-> "ok", headers |-> TwoHeaders],
      [response_code |-> MHD_YES, body |-> "", headers |-> OneHeader],
      [response_code |-> MHD_YES, body |-> "ok", headers |-> TwoHeaders],
      [response_code |-> MHD_HTTP_NOT_FOUND, body |-> "no", headers |-> << >>] }

\* ------------------------------------------------------------ state

VARIABLES
    allowed_ips,     \* options_.allowed_ips
    controllers,     \* WebServer::controllers, in registration order
    waiting_loops,   \* DynamicController::waiting_loops
    serving,         \* the first connection was accepted: registration is over
    request,         \* per connection: path, method and peer of its request
    phase,           \* per connection: idle, open, closing, completed
    slot,            \* per connection: *ptr / *con_cls, 0 is nullptr
    heap,            \* every ConnectionState ever created, by address
    invocations,     \* per connection: request_handler invocations so far
    builds,          \* per connection: createResponse calls so far
    empty_only,      \* per connection: no invocation so far carried upload data
    last,            \* what the most recent handler or completion event did
    probe_ip,        \* allow-list specification: the address asked about
    probe_result,    \* allow-list specification: the filter's answer
    certificate,     \* options_.certificate.has_value()
    bind_interface,  \* options_.bind_interface
    handler_should_terminate, \* "unset", or what the predicate returns now
    daemon_,         \* WebServer::daemon_, 0 is nullptr, else an engine handle
    engines,         \* every engine MHD_start_daemon returned, by handle
    attempts,        \* the local `attempts` of start_daemon
    pc,              \* where the thread that called start() is
    caller,          \* which call of start_daemon is running
    run,             \* what the latest run of start_daemon did, until the
                     \* supervision loop moves on
    leaked,          \* descriptors of failed engine starts nobody closed
    polled           \* the predicate was polled last and returned true

vars == << allowed_ips, controllers, waiting_loops, serving, request, phase,
           slot, heap, invocations, builds, empty_only, last, probe_ip,
           probe_result, certificate, bind_interface,
           handler_should_terminate, daemon_, engines, attempts, pc, caller,
           run, leaked, polled >>

connVars == << serving, request, phase, slot, heap, invocations, builds,
               empty_only, last >>

optionVars == << certificate, bind_interface, handler_should_terminate >>

daemonVars == << daemon_, engines, attempts, pc, caller, run, leaked, polled >>

\* ------------------------------------------------------------ allow-list

\* Faulty variant: the wildcard token "all" is matched whatever its case.
EntryAdmitsAnyCase(it, ip) ==
    IF it \in {"all", "ALL", "All", "*"} THEN TRUE ELSE it = ip

\* The lambda of is_allowed_ip: does one entry admit the address?
EntryAdmits(it, ip) ==
    IF it = "all" \/ it = "*" THEN TRUE ELSE it = ip

\* Faulty variant: std::all_of in place of std::any_of.
RECURSIVE AllOfAllowed(_, _, _)
AllOfAllowed(ips, i, ip) ==
    IF i > Len(ips) THEN TRUE
    ELSE IF ~EntryAdmits(ips[i], ip) THEN FALSE
    ELSE AllOfAllowed(ips, i + 1, ip)

\* std::any_of over allowed_ips from position i on.
RECURSIVE AnyOfAllowed(_, _, _)
AnyOfAllowed(ips, i, ip) ==
    IF i > Len(ips) THEN FALSE
    ELSE IF EntryAdmits(ips[i], ip) THEN TRUE
    ELSE AnyOfAllowed(ips, i + 1, ip)

is_allowed_ip(ips, ip) == AnyOfAllowed(ips, 1, ip)

\* inet_ntop for the addresses of Peers: dotted decimal for AF_INET; for
\* AF_INET6 the groups of an address whose first seven groups are zero.
inet_ntop(family, addr) ==
    IF family = "AF_INET"
    THEN ToString(addr[1]) \o "." \o ToString(addr[2]) \o "." \o
         ToString(addr[3]) \o "." \o ToString(addr[4])
    ELSE "::" \o ToString(addr[8])

\* Faulty variant: an unknown family yields the text of the zeroed buffer's address
\* instead of the empty string.
connection_ip_unspecified(peer) ==
    IF ~peer.has THEN ""
    ELSE IF peer.sa_family = "AF_INET" THEN inet_ntop("AF_INET", peer.addr)
    ELSE IF peer.sa_family = "AF_INET6" THEN inet_ntop("AF_INET6", peer.addr)
    ELSE "0.0.0.0"

connection_ip(peer) ==
    IF ~peer.has THEN ""
    ELSE IF peer.sa_family = "AF_INET" THEN inet_ntop("AF_INET", peer.addr)
    ELSE IF peer.sa_family = "AF_INET6" THEN inet_ntop("AF_INET6", peer.addr)
    ELSE ""

is_ip_allowed(ips, peer) == is_allowed_ip(ips, connection_ip(peer))

\* ------------------------------------------------------------ dispatcher

\* validPath of the two controller kinds.
validPath(kind, path, method) ==
    IF kind = "root" THEN path = "/"
    ELSE IF kind = "post" THEN method = "POST"
    ELSE FALSE

\* Faulty variant: the loop keeps going and the last matching controller wins.
RECURSIVE LastMatch(_, _, _, _)
LastMatch(ctrls, i, path, method) ==
    IF i > Len(ctrls) THEN 0
    ELSE LET later == LastMatch(ctrls, i + 1, path, method)
         IN  IF later # 0 THEN later
             ELSE IF ctrls[i] # NullController /\ validPath(ctrls[i], path, method)
             THEN i ELSE 0

\* Faulty variant: with no match the loop falls back to the first registered
\* controller instead of ending without one.
RECURSIVE FirstMatchOrDefault(_, _, _, _)
FirstMatchOrDefault(ctrls, i, path, method) ==
    IF i > Len(ctrls)
    THEN (IF \E j \in 1..Len(ctrls) : ctrls[j] # NullController
          THEN CHOOSE j \in 1..Len(ctrls) : ctrls[j] # NullController
          ELSE 0)
    ELSE IF ctrls[i] # NullController /\ validPath(ctrls[i], path, method) THEN i
    ELSE FirstMatchOrDefault(ctrls, i + 1, path, method)

\* The loop of request_handler: the index of the controller it delegates to,
\* 0 when the loop ends without a match.
RECURSIVE FirstMatch(_, _, _, _)
FirstMatch(ctrls, i, path, method) ==
    IF i > Len(ctrls) THEN 0
    ELSE IF ctrls[i] # NullController /\ validPath(ctrls[i], path, method) THEN i
    ELSE FirstMatch(ctrls, i + 1, path, method)

\* The controllers whose validPath the loop called, in call order.
RECURSIVE Consulted(_, _, _, _)
Consulted(ctrls, i, path, method) ==
    IF i > Len(ctrls) THEN << >>
    ELSE IF ctrls[i] = NullController THEN Consulted(ctrls, i + 1, path, method)
    ELSE IF validPath(ctrls[i], path, method) THEN << i >>
    ELSE << i >> \o Consulted(ctrls, i + 1, path, method)

\* ------------------------------------------------------------ controller

\* Controller::create_state: new ConnectionState(*this).
create_state(ctrl, conn) ==
    [ conroller |-> ctrl, owner |-> conn, alive |-> TRUE, deletes |-> 0,
      response_sent |-> FALSE, response_headers |-> << >>,
      response_data |-> "", request_waiting_loop_counter |-> 0 ]

\* Faulty variant: a state is created on every invocation.
NeedsStateAlways(ptr) == TRUE

\* The condition of `if(not *ptr) *ptr = create_state();`
NeedsState(ptr) == ptr = 0

\* Faulty variant: a POST waits while nothing is cached, upload data or not.
WaitsForBodyAnyData(st, meth, has_data) ==
    meth = "POST" /\ st.response_data = ""

\* Faulty variant: every method waits for upload data.
WaitsForBodyAnyMethod(st, meth, has_data) ==
    ~has_data /\ st.response_data = ""

\* Faulty variant: a POST without upload data waits, cached response or not.
WaitsForBodyIgnoringCache(st, meth, has_data) ==
    meth = "POST" /\ ~has_data

\* The wait-for-body condition of handleRequest.
WaitsForBody(st, meth, has_data) ==
    meth = "POST" /\ ~has_data /\ st.response_data = ""

\* Faulty variant: the ceiling is compared with >=.
WaitTimedOutEarly(counter, ceiling) == counter >= ceiling

\* `++counter > waiting_loops`, given the incremented counter.
WaitTimedOut(counter, ceiling) == counter > ceiling

\* Faulty variant: the response is built on every invocation that gets here.
NeedsBuildAlways(st) == TRUE

\* `if(state->response_data.empty())`: the response is still to be built.
NeedsBuild(st) == st.response_data = ""

NoQueue == << >>

\* Faulty variant: a refused queue call ends the connection.
ReturnQueueResult(accept) == IF accept THEN MHD_YES ELSE MHD_NO

\* What handleRequest returns after MHD_queue_response: `ret` is assigned
\* the call's result, but the function ends in `return MHD_YES;`.
ReturnAfterQueue(accept) == MHD_YES

\* Faulty variant: the response carries the status createResponse returned.
QueueStatusFromParams(cr) == cr.response_code

\* The status given to MHD_queue_response.
QueueStatus(cr) == MHD_HTTP_OK

\* Faulty variant: the body and headers are cached before the abort
\* sentinel is looked at.
handleRequestCacheFirst(st, meth, has_data, cr, accept, ceiling) ==
    IF st.response_sent
    THEN [st |-> st, ret |-> MHD_YES, built |-> FALSE, queue |-> NoQueue]
    ELSE IF WaitsForBody(st, meth, has_data)
    THEN LET st1 == [st EXCEPT !.request_waiting_loop_counter = @ + 1]
         IN  [st |-> st1,
              ret |-> IF WaitTimedOut(st1.request_waiting_loop_counter, ceiling)
                      THEN MHD_NO ELSE MHD_YES,
              built |-> FALSE, queue |-> NoQueue]
    ELSE LET need == NeedsBuild(st)
             st1 == IF need
                    THEN [st EXCEPT !.response_data = cr.body,
                                    !.response_headers = cr.headers]
                    ELSE st
         IN  IF need /\ cr.response_code = MHD_NO
             THEN [st |-> st1, ret |-> MHD_NO, built |-> TRUE, queue |-> NoQueue]
             ELSE LET st2 == IF accept
                             THEN [st1 EXCEPT !.response_sent = TRUE]
                             ELSE st1
                  IN  [st |-> st2, ret |-> MHD_YES, built |-> need,
                       queue |-> << [status |-> MHD_HTTP_OK,
                                     body |-> st1.response_data,
                                     headers |-> st1.response_headers,
                                     accepted |-> accept] >>]

\* Faulty variant: response_sent is set without looking at what
\* MHD_queue_response returned.
handleRequestSentAlways(st, meth, has_data, cr, accept, ceiling) ==
    IF st.response_sent
    THEN [st |-> st, ret |-> MHD_YES, built |-> FALSE, queue |-> NoQueue]
    ELSE IF WaitsForBody(st, meth, has_data)
    THEN LET st1 == [st EXCEPT !.request_waiting_loop_counter = @ + 1]
         IN  [st |-> st1,
              ret |-> IF WaitTimedOut(st1.request_waiting_loop_counter, ceiling)
                      THEN MHD_NO ELSE MHD_YES,
              built |-> FALSE, queue |-> NoQueue]
    ELSE LET need == NeedsBuild(st)
         IN  IF need /\ cr.response_code = MHD_NO
             THEN [st |-> st, ret |-> MHD_NO, built |-> TRUE, queue |-> NoQueue]
             ELSE LET st1 == IF need
                             THEN [st EXCEPT !.response_data = cr.body,
                                             !.response_headers = cr.headers]
                             ELSE st
                      st2 == [st1 EXCEPT !.response_sent = TRUE]
                  IN  [st |-> st2, ret |-> MHD_YES, built |-> need,
                       queue |-> << [status |-> MHD_HTTP_OK,
                                     body |-> st1.response_data,
                                     headers |-> st1.response_headers,
                                     accepted |-> accept] >>]

\* DynamicController::handleRequest on the state st of the connection:
\* cr is what createResponse returns if it is called, accept whether
\* MHD_queue_response returns MHD_YES if it is called.
\* (The counter is a uint32_t; the invocation bound keeps it far from 2^32.)
handleRequest(st, meth, has_data, cr, accept, ceiling) ==
    IF st.response_sent
    THEN [st |-> st, ret |-> MHD_YES, built |-> FALSE, queue |-> NoQueue]
    ELSE IF WaitsForBody(st, meth, has_data)
    THEN LET st1 == [st EXCEPT !.request_waiting_loop_counter = @ + 1]
         IN  [st |-> st1,
              ret |-> IF WaitTimedOut(st1.request_waiting_loop_counter, ceiling)
                      THEN MHD_NO ELSE MHD_YES,
              built |-> FALSE, queue |-> NoQueue]
    ELSE LET need == NeedsBuild(st)
         IN  IF need /\ cr.response_code = MHD_NO
             THEN [st |-> st, ret |-> MHD_NO, built |-> TRUE, queue |-> NoQueue]
             ELSE LET st1 == IF need
                             THEN [st EXCEPT !.response_data = cr.body,
                                             !.response_headers = cr.headers]
                             ELSE st
                      st2 == IF accept
                             THEN [st1 EXCEPT !.response_sent = TRUE]
                             ELSE st1
                  IN  [st |-> st2, ret |-> ReturnAfterQueue(accept),
                       built |-> need,
                       queue |-> << [status |-> QueueStatus(cr),
                                     body |-> st1.response_data,
                                     headers |-> st1.response_headers,
                                     accepted |-> accept] >>]

\* Faulty variant: completion acknowledges without deleting the state.
handleCompleteKeep(h, cs) == h

\* Controller::handleComplete: `if(cs) delete cs;` on the heap.
handleComplete(h, cs) ==
    IF cs # 0
    THEN [h EXCEPT ![cs].alive = FALSE, ![cs].deletes = @ + 1]
    ELSE h

\* ------------------------------------------------------------ initial state

NoRequest == [path |-> "", method |-> "", peer |-> CHOOSE p \in Peers : ~p.has]

\* A default-constructed ResponseParams and an empty stream.
NoBuild == [response_code |-> MHD_YES, body |-> "", headers |-> << >>]

\* The record of an event: which connection, whether upload data came with
\* it, what the handler returned, the response it queued (if any), the
\* controllers whose validPath it called, the controller whose handleRequest
\* it called (0: none), whether createResponse was called and what it
\* returned, and whether a ConnectionState was created.
NoEvent ==
    [ kind |-> "none", conn |-> "", has_data |-> FALSE, ret |-> MHD_YES,
      queue |-> NoQueue, consulted |-> << >>, handler |-> 0,
      built |-> FALSE, result |-> NoBuild, created |-> FALSE ]

InitConn ==
    /\ serving = FALSE
    /\ request = [c \in ConnIds |-> NoRequest]
    /\ phase = [c \in ConnIds |-> "idle"]
    /\ slot = [c \in ConnIds |-> 0]
    /\ heap = << >>
    /\ invocations = [c \in ConnIds |-> 0]
    /\ builds = [c \in ConnIds |-> 0]
    /\ empty_only = [c \in ConnIds |-> TRUE]
    /\ last = NoEvent

\* What a run of start_daemon has done: nothing yet. The record counts the
\* passes of the loop, the sockets created, the sockets the manager closed
\* and the backoff waits (odd is the parity of the passes, which keeps a
\* pass a step when the counters have stopped); bind_only says that no pass
\* failed at a stage other than bind; restart, that the run found a handle;
\* started and listening, the pass and the socket of the engine that was
\* started.
NoRun ==
    [ attempts |-> 0, odd |-> FALSE, sockets |-> 0, closed |-> 0, waits |-> 0,
      bind_only |-> TRUE, restart |-> FALSE, started |-> 0, listening |-> 0 ]

\* The manager before start() is called: no engine, no handle.
IdleDaemon ==
    /\ daemon_ = 0
    /\ engines = << >>
    /\ attempts = 0
    /\ pc = "idle"
    /\ caller = "start"
    /\ run = NoRun
    /\ leaked = 0
    /\ polled = FALSE

\* The connection and allow-list specifications never call start().
NotStarted ==
    /\ certificate = FALSE
    /\ bind_interface = ""
    /\ handler_should_terminate = "unset"
    /\ IdleDaemon

\* A constructed WebServer with its options set: no controller registered yet.
\* The wait ceiling is a static the embedding program may set; the model
\* takes every ceiling from 1 up to the bound (the source's default is 300).
Init ==
    /\ allowed_ips \in AllowConfigs
    /\ controllers = << >>
    /\ waiting_loops \in 1..MaxWaitingLoops
    /\ InitConn
    /\ probe_ip = ""
    /\ probe_result = "unasked"
    /\ NotStarted

\* ------------------------------------------------------------ actions

\* WebServer::addController, before the server serves.
addController(k) ==
    /\ ~serving
    /\ Len(controllers) < MaxControllers
    /\ controllers' = Append(controllers, k)
    /\ UNCHANGED << allowed_ips, waiting_loops, connVars, probe_ip, probe_result,
                    optionVars, daemonVars >>

\* The transport accepts a connection and parses its request line.
Accept(c, r) ==
    /\ phase[c] = "idle"
    /\ phase' = [phase EXCEPT ![c] = "open"]
    /\ request' = [request EXCEPT ![c] = r]
    /\ serving' = TRUE
    /\ UNCHANGED << allowed_ips, controllers, waiting_loops, slot, heap,
                    invocations, builds, empty_only, last, probe_ip,
                    probe_result, optionVars, daemonVars >>

\* The outcome of one invocation of request_handler: the heap and the
\* connection's slot after it, and the record of what it did.
EventOf(c, has_data) ==
    [NoEvent EXCEPT !.kind = "request", !.conn = c, !.has_data = has_data]

\* `return MHD_queue_response(connection, status, <empty response>)`.
QueueEmpty(c, has_data, status, accept, seen) ==
    [ heap |-> heap, slot |-> slot[c],
      ev |-> [EventOf(c, has_data) EXCEPT
                 !.ret = IF accept THEN MHD_YES ELSE MHD_NO,
                 !.consulted = seen,
                 !.queue = << [status |-> status, body |-> "",
                               headers |-> << >>, accepted |-> accept] >>] ]

\* Faulty variant: the controller keeps one state for all its connections.
DelegateShared(c, i, has_data, cr, accept, seen) ==
    LET fresh == heap = << >>
        h1 == IF fresh THEN Append(heap, create_state(i, c)) ELSE heap
        p == Len(h1)
        out == handleRequest(h1[p], request[c].method, has_data, cr, accept,
                             waiting_loops)
    IN  [ heap |-> [h1 EXCEPT ![p] = out.st], slot |-> p,
          ev |-> [EventOf(c, has_data) EXCEPT
                     !.ret = out.ret, !.consulted = seen, !.queue = out.queue,
                     !.handler = i, !.built = out.built,
                     !.result = IF out.built THEN cr ELSE NoBuild,
                     !.created = fresh] ]

\* `return c->handleRequest(connection, url, method, upload_data, ..., ptr)`
\* for the controller at index i.
Delegate(c, i, has_data, cr, accept, seen) ==
    LET fresh == NeedsState(slot[c])
        h1 == IF fresh THEN Append(heap, create_state(i, c)) ELSE heap
        p == IF fresh THEN Len(h1) ELSE slot[c]
        out == handleRequest(h1[p], request[c].method, has_data, cr, accept,
                             waiting_loops)
    IN  [ heap |-> [h1 EXCEPT ![p] = out.st], slot |-> p,
          ev |-> [EventOf(c, has_data) EXCEPT
                     !.ret = out.ret, !.consulted = seen, !.queue = out.queue,
                     !.handler = i, !.built = out.built,
                     !.result = IF out.built THEN cr ELSE NoBuild,
                     !.created = fresh] ]

\* The controller loop of request_handler and the 404 after it.
Route(c, has_data, cr, accept) ==
    LET r == request[c]
        i == FirstMatch(controllers, 1, r.path, r.method)
        seen == Consulted(controllers, 1, r.path, r.method)
    IN  IF i # 0
        THEN Delegate(c, i, has_data, cr, accept, seen)
        ELSE QueueEmpty(c, has_data, MHD_HTTP_NOT_FOUND, accept, seen)

\* Faulty variant: the request is routed first and the allow-list consulted after.
DispatchThenFilter(c, has_data, cr, accept) ==
    LET routed == Route(c, has_data, cr, accept)
    IN  IF ~is_ip_allowed(allowed_ips, request[c].peer)
        THEN [routed EXCEPT !.ev.ret = IF accept THEN MHD_YES ELSE MHD_NO,
                            !.ev.queue = << [status |-> MHD_HTTP_FORBIDDEN,
                                             body |-> "", headers |-> << >>,
                                             accepted |-> accept] >>]
        ELSE routed

\* WebServer::request_handler for connection c.
Dispatch(c, has_data, cr, accept) ==
    IF ~is_ip_allowed(allowed_ips, request[c].peer)
    THEN QueueEmpty(c, has_data, MHD_HTTP_FORBIDDEN, accept, << >>)
    ELSE Route(c, has_data, cr, accept)

\* What createResponse returns matters only when the invocation calls it, and
\* the transport's answer to MHD_queue_response only when a response is queued.

BuildChoices(c, has_data) ==
    IF Dispatch(c, has_data, NoBuild, TRUE).ev.built
    THEN BuildResults ELSE {NoBuild}

QueueChoices(c, has_data, cr) ==
    IF Dispatch(c, has_data, cr, TRUE).ev.queue # NoQueue
    THEN BOOLEAN ELSE {TRUE}

\* The transport invokes request_handler for an open connection.
RequestHandler(c, has_data, cr, accept) ==
    /\ phase[c] = "open"
    /\ invocations[c] < MaxInvocations
    /\ LET d == Dispatch(c, has_data, cr, accept)
       IN  /\ heap' = d.heap
           /\ slot' = [slot EXCEPT ![c] = d.slot]
           /\ last' = d.ev
           /\ builds' = [builds EXCEPT ![c] = @ + (IF d.ev.built THEN 1 ELSE 0)]
           /\ phase' = [phase EXCEPT ![c] = IF d.ev.ret = MHD_NO
                                             THEN "closing" ELSE "open"]
    /\ invocations' = [invocations EXCEPT ![c] = @ + 1]
    /\ empty_only' = [empty_only EXCEPT ![c] = @ /\ ~has_data]
    /\ UNCHANGED << allowed_ips, controllers, waiting_loops, serving, request,
                    probe_ip, probe_result, optionVars, daemonVars >>

\* WebServer::request_complete_handler: the transport signals that the
\* request of connection c is over (sent, failed or closed).
RequestComplete(c) ==
    /\ phase[c] \in {"open", "closing"}
    /\ heap' = handleComplete(heap, slot[c])
    /\ phase' = [phase EXCEPT ![c] = "completed"]
    /\ last' = [NoEvent EXCEPT !.kind = "complete", !.conn = c]
    /\ UNCHANGED << allowed_ips, controllers, waiting_loops, serving, request,
                    slot, invocations, builds, empty_only, probe_ip,
                    probe_result, optionVars, daemonVars >>

\* The connection specification handles one connection.
Served == {"c1"}

Next ==
    \/ \E k \in ControllerKinds : addController(k)
    \/ \E c \in Served, r \in [path : Paths, method : Methods, peer : Peers] :
          Accept(c, r)
    \/ \E c \in Served, has_data \in BOOLEAN :
          \E cr \in BuildChoices(c, has_data) :
             \E accept \in QueueChoices(c, has_data, cr) :
                RequestHandler(c, has_data, cr, accept)
    \/ \E c \in Served : RequestComplete(c)

Spec == Init /\ [][Next]_vars

\* ------------------------------------------------------------ two
\* connections served at once by a server with both controllers registered.

TwoRequests ==
    [ path : {"/"}, method : Methods,
      peer : { p \in Peers : p.has /\ p.sa_family = "AF_INET" } ]

InitTwo ==
    /\ allowed_ips = << "*" >>
    /\ controllers = << "post", "root" >>
    /\ waiting_loops = 1
    /\ InitConn
    /\ probe_ip = ""
    /\ probe_result = "unasked"
    /\ NotStarted

NextTwo ==
    \/ \E c \in ConnIds, r \in TwoRequests : Accept(c, r)
    \/ \E c \in ConnIds, has_data \in BOOLEAN :
          \E cr \in BuildChoices(c, has_data) :
             \E accept \in QueueChoices(c, has_data, cr) :
                RequestHandler(c, has_data, cr, accept)
    \/ \E c \in ConnIds : RequestComplete(c)

SpecTwo == InitTwo /\ [][NextTwo]_vars

\* ------------------------------------------------------------ allow-list
\* specification: is_allowed_ip as a function of the list and the address.

RECURSIVE SeqsUpTo(_, _)
SeqsUpTo(S, n) ==
    IF n = 0 THEN { << >> }
    ELSE LET shorter == SeqsUpTo(S, n - 1)
         IN  shorter \cup { Append(s, x) : s \in shorter, x \in S }

InitAllow ==
    /\ allowed_ips \in SeqsUpTo(IpTokens, MaxAllowed)
    /\ controllers = << >>
    /\ waiting_loops = 1
    /\ InitConn
    /\ probe_ip \in IpTokens \cup {"::1"}
    /\ probe_result = "unasked"
    /\ NotStarted

\* options_t::is_allowed_ip is called with the address.
AskAllowed ==
    /\ probe_result = "unasked"
    /\ probe_result' = IF is_allowed_ip(allowed_ips, probe_ip)
                       THEN "allowed" ELSE "denied"
    /\ UNCHANGED << allowed_ips, controllers, waiting_loops, connVars, probe_ip,
                    optionVars, daemonVars >>

NextAllow == AskAllowed

SpecAllow == InitAllow /\ [][NextAllow]_vars

\* ------------------------------------------------------------ daemon
\* lifecycle: WebServer::start, start_daemon, stop_daemon, is_daemon_alive.

\* `int attempts = 12;` of start_daemon.
StartAttempts == 12

\* The history counters of a run stop counting here ("this many or more").
MaxCounted == 13
\* The count of leaked descriptors stops here.
MaxLeaked == 1

Inc(n, cap) == IF n < cap THEN n + 1 ELSE n

\* How one pass of the loop of start_daemon can end: at the stage that
\* failed, or "ok" when MHD_start_daemon returned a handle.
Outcomes == {"socket", "interface", "bind", "listen", "engine", "ok"}

\* What the build may do where the code uses a handle after MHD_stop_daemon
\* freed it.
ProbeOutcomes == {"alive", "dead", "crash"}
StopOutcomes == {"benign", "crash"}

\* `while(! daemon_ && attempts >= 0)`.
LoopCondition(d, a) == d = 0 /\ a >= 0

\* Faulty variant: a socket whose bind failed is left open.
ClosesSocketNotBind(outcome) == outcome \in {"interface", "listen"}

\* The stages after which start_daemon calls ::close(listen_socket).
ClosesSocket(outcome) == outcome \in {"interface", "bind", "listen"}

\* The passes that end in a backoff wait: sleepy(5) or the nanosleep after a
\* failed MHD_start_daemon.
Waits(outcome) == outcome # "ok"

\* Faulty variant: a failed engine start is not counted either.
DecrementsOnSuccess(outcome) == outcome = "ok"

\* The passes that reach `--attempts`: the `continue` of the earlier
\* stages skips it.
Decrements(outcome) == outcome \in {"engine", "ok"}

\* Faulty variant: without a predicate the loop ends after one cycle.
BreaksUnlessNo(hst) == hst # "no"

\* `if(options().handler_should_terminate.has_value()) { if(sh_callback()) break; }`
Breaks(hst) == hst = "yes"

\* The stages of a pass in the order of the code; the interface stage is
\* there only when options().bind_interface is not empty.
StageOrder(iface) ==
    IF iface = ""
    THEN << "socket", "bind", "listen", "engine" >>
    ELSE << "socket", "interface", "bind", "listen", "engine" >>

\* One call a pass makes: its name, the descriptor it is given (or, for
\* socket(), returns), and for MHD_start_daemon the flags and the callbacks.
Call(name, fd) ==
    [ call |-> name, fd |-> fd, flags |-> {}, handler |-> "", notify |-> "" ]

\* Faulty variant: the engine is started without TLS whatever the options.
EngineFlagsPlain(cert) == {"MHD_USE_EPOLL_INTERNALLY"}

\* The flags of the two MHD_start_daemon calls.
EngineFlags(cert) ==
    IF cert THEN {"MHD_USE_EPOLL_INTERNALLY", "MHD_USE_SSL"}
    ELSE {"MHD_USE_EPOLL_INTERNALLY"}

\* The call that stage makes on descriptor fd; failed says the stage is the
\* one that fails.
StageCall(stage, fd, cert, failed) ==
    IF stage = "socket" THEN Call("socket", IF failed THEN -1 ELSE fd)
    ELSE IF stage = "interface" THEN Call("setsockopt", fd)
    ELSE IF stage = "bind" THEN Call("bind", fd)
    ELSE IF stage = "listen" THEN Call("listen", fd)
    ELSE [ call |-> "MHD_start_daemon", fd |-> fd,
           flags |-> EngineFlags(cert),
           handler |-> "request_handler",
           notify |-> "request_complete_handler" ]

\* Faulty variant: the backoff wait comes before the close.
GiveUpWaitFirst(outcome, fd) ==
    (IF Waits(outcome) THEN << Call("sleepy", -1) >> ELSE << >>)
    \o (IF ClosesSocket(outcome) THEN << Call("close", fd) >> ELSE << >>)
    \o (IF Decrements(outcome) THEN << Call("--attempts", -1) >> ELSE << >>)

\* What a pass does after its last stage: close, wait, `--attempts`.
GiveUp(outcome, fd) ==
    (IF ClosesSocket(outcome) THEN << Call("close", fd) >> ELSE << >>)
    \o (IF Waits(outcome) THEN << Call("sleepy", -1) >> ELSE << >>)
    \o (IF Decrements(outcome) THEN << Call("--attempts", -1) >> ELSE << >>)

\* The position of the stage at which a pass ends.
LastStage(outcome, order) ==
    IF outcome = "ok" THEN Len(order)
    ELSE CHOOSE i \in DOMAIN order : order[i] = outcome

\* The calls of one pass of the loop, in order: fd is the descriptor
\* socket() returns when it succeeds.
PassCalls(outcome, iface, cert, fd) ==
    LET order == StageOrder(iface)
        n == LastStage(outcome, order)
    IN  [ i \in 1..n |-> StageCall(order[i], fd, cert, order[i] = outcome) ]
        \o GiveUp(outcome, fd)

Has(calls, name) == \E i \in DOMAIN calls : calls[i].call = name

\* The MHD_start_daemon call of a pass that reached it.
EngineCall(calls) ==
    calls[CHOOSE i \in DOMAIN calls : calls[i].call = "MHD_start_daemon"]

\* WebServer::stop_daemon on handle d; ub is the build's behaviour when d
\* was stopped before.
stop_daemon(d, es, ub) ==
    IF d = 0 THEN [engines |-> es, crashed |-> FALSE]
    ELSE IF es[d].running
    THEN [engines |-> [es EXCEPT ![d].running = FALSE,
                                 ![d].fd_valid = FALSE,
                                 ![d].stops = Inc(@, 2)],
          crashed |-> FALSE]
    ELSE [engines |-> [es EXCEPT ![d].stops = Inc(@, 2)],
          crashed |-> ub = "crash"]

\* Faulty variant: an absent handle counts as alive.
is_daemon_aliveAbsent(d, es, ub) ==
    IF d = 0 THEN TRUE
    ELSE IF es[d].running THEN es[d].fd_valid
    ELSE ub = "alive"

\* WebServer::is_daemon_alive; ub is the build's behaviour when daemon_ was
\* stopped before.
is_daemon_alive(d, es, ub) ==
    IF d = 0 THEN FALSE
    ELSE IF es[d].running THEN es[d].fd_valid
    ELSE ub = "alive"

\* The handle is used after MHD_stop_daemon freed it.
Dangling(d, es) == d # 0 /\ ~es[d].running

StopChoices == IF Dangling(daemon_, engines) THEN StopOutcomes ELSE {"benign"}
ProbeChoices == IF Dangling(daemon_, engines) THEN ProbeOutcomes ELSE {"dead"}

\* A constructed WebServer whose start() was not called yet.
InitDaemon ==
    /\ allowed_ips = << "*" >>
    /\ controllers = << >>
    /\ waiting_loops = 1
    /\ InitConn
    /\ probe_ip = ""
    /\ probe_result = "unasked"
    /\ certificate \in BOOLEAN
    /\ bind_interface \in {"", "eth0"}
    /\ handler_should_terminate \in {"unset", "no", "yes"}
    /\ IdleDaemon

\* The head of start_daemon: `stop_daemon(); ... int attempts = 12;`.
EnterStartDaemon(from, ub) ==
    LET stopped == stop_daemon(daemon_, engines, ub)
    IN  /\ engines' = stopped.engines
        /\ attempts' = StartAttempts
        /\ run' = [NoRun EXCEPT !.restart = daemon_ # 0]
        /\ caller' = from
        /\ pc' = IF stopped.crashed THEN "crashed" ELSE "start_daemon"

\* start() is called: its first statement is start_daemon().
Start ==
    /\ pc = "idle"
    /\ EnterStartDaemon("start", "benign")
    /\ UNCHANGED << allowed_ips, controllers, waiting_loops, connVars,
                    probe_ip, probe_result, optionVars, daemon_, leaked,
                    polled >>

\* One pass of the loop of start_daemon, ending as `outcome` says; when
\* MHD_start_daemon fails the library may or may not have closed the
\* descriptor it was given.
Attempt(outcome, lib_closes) ==
    /\ pc = "start_daemon"
    /\ LoopCondition(daemon_, attempts)
    /\ outcome = "interface" => bind_interface # ""
    /\ LET calls == PassCalls(outcome, bind_interface, certificate,
                              Inc(run.sockets, MaxCounted))
       IN  /\ run' = [run EXCEPT
                         !.attempts = Inc(@, MaxCounted),
                         !.odd = ~@,
                         !.sockets = IF calls[1].fd # -1
                                     THEN Inc(@, MaxCounted) ELSE @,
                         !.closed = IF Has(calls, "close")
                                    THEN Inc(@, MaxCounted) ELSE @,
                         !.waits = IF Has(calls, "sleepy")
                                   THEN Inc(@, MaxCounted) ELSE @,
                         !.bind_only = @ /\ outcome \in {"bind", "ok"},
                         !.started = IF outcome = "ok"
                                     THEN Inc(run.attempts, MaxCounted) ELSE @,
                         !.listening = IF outcome = "ok"
                                       THEN EngineCall(calls).fd ELSE @]
           /\ attempts' = IF Has(calls, "--attempts")
                          THEN attempts - 1 ELSE attempts
           /\ leaked' = IF outcome = "engine" /\ ~lib_closes
                        THEN Inc(leaked, MaxLeaked) ELSE leaked
           /\ IF outcome = "ok"
              THEN /\ engines' =
                        Append(engines,
                           [ running |-> TRUE, fd_valid |-> TRUE,
                             tls |-> "MHD_USE_SSL" \in EngineCall(calls).flags,
                             stops |-> 0, probed_after_stop |-> FALSE ])
                   /\ daemon_' = Len(engines) + 1
              ELSE UNCHANGED << engines, daemon_ >>
    /\ UNCHANGED << allowed_ips, controllers, waiting_loops, connVars,
                    probe_ip, probe_result, optionVars, pc, caller, polled >>

\* The loop condition of start_daemon is false: start_daemon returns, to the
\* supervision loop's sleep or to its poll of the termination predicate.
ReturnFromStartDaemon ==
    /\ pc = "start_daemon"
    /\ ~LoopCondition(daemon_, attempts)
    /\ pc' = IF caller = "start" THEN "supervise" ELSE "poll"
    /\ UNCHANGED << allowed_ips, controllers, waiting_loops, connVars,
                    probe_ip, probe_result, optionVars, daemon_, engines,
                    attempts, caller, run, leaked, polled >>

\* A supervision cycle up to its poll: the one-second sleep, then
\* `if(not is_daemon_alive()) start_daemon();`.
Probe(probe_ub, stop_ub) ==
    /\ pc = "supervise"
    /\ IF Dangling(daemon_, engines) /\ probe_ub = "crash"
       THEN /\ pc' = "crashed"
            /\ engines' = [engines EXCEPT ![daemon_].probed_after_stop = TRUE]
            /\ run' = NoRun
            /\ UNCHANGED << attempts, caller >>
       ELSE IF is_daemon_alive(daemon_, engines, probe_ub)
       THEN /\ pc' = "poll"
            /\ engines' = IF Dangling(daemon_, engines)
                          THEN [engines EXCEPT
                                   ![daemon_].probed_after_stop = TRUE]
                          ELSE engines
            /\ run' = NoRun
            /\ UNCHANGED << attempts, caller >>
       ELSE LET probed == IF Dangling(daemon_, engines)
                          THEN [engines EXCEPT
                                   ![daemon_].probed_after_stop = TRUE]
                          ELSE engines
                stopped == stop_daemon(daemon_, probed, stop_ub)
            IN  /\ engines' = stopped.engines
                /\ attempts' = StartAttempts
                /\ run' = [NoRun EXCEPT !.restart = daemon_ # 0]
                /\ caller' = "loop"
                /\ pc' = IF stopped.crashed THEN "crashed" ELSE "start_daemon"
    /\ UNCHANGED << allowed_ips, controllers, waiting_loops, connVars,
                    probe_ip, probe_result, optionVars, daemon_, leaked,
                    polled >>

\* The end of a supervision cycle: the poll of the termination predicate,
\* and on `break` the `stop_daemon(); return true;` that ends start().
Poll(stop_ub) ==
    /\ pc = "poll"
    /\ IF Breaks(handler_should_terminate)
       THEN LET stopped == stop_daemon(daemon_, engines, stop_ub)
            IN  /\ engines' = stopped.engines
                /\ pc' = IF stopped.crashed THEN "crashed" ELSE "returned"
       ELSE /\ pc' = "supervise"
            /\ UNCHANGED engines
    /\ polled' = (handler_should_terminate = "yes")
    /\ run' = NoRun
    /\ UNCHANGED << allowed_ips, controllers, waiting_loops, connVars,
                    probe_ip, probe_result, optionVars, daemon_, attempts,
                    caller, leaked >>

Running == pc \notin {"idle", "returned", "crashed"}

\* The listening descriptor of the running engine becomes invalid.
DescriptorLost ==
    /\ Running
    /\ daemon_ # 0
    /\ engines[daemon_].running
    /\ engines[daemon_].fd_valid
    /\ engines' = [engines EXCEPT ![daemon_].fd_valid = FALSE]
    /\ UNCHANGED << allowed_ips, controllers, waiting_loops, connVars,
                    probe_ip, probe_result, optionVars, daemon_, attempts,
                    pc, caller, run, leaked, polled >>

\* The configured termination predicate changes its answer.
PredicateChanges ==
    /\ Running
    /\ handler_should_terminate # "unset"
    /\ handler_should_terminate' =
          IF handler_should_terminate = "no" THEN "yes" ELSE "no"
    /\ UNCHANGED << allowed_ips, controllers, waiting_loops, connVars,
                    probe_ip, probe_result, certificate, bind_interface,
                    daemonVars >>

\* The embedding program sets or clears options().certificate.
CertificateChanges ==
    /\ Running
    /\ certificate' = ~certificate
    /\ UNCHANGED << allowed_ips, controllers, waiting_loops, connVars,
                    probe_ip, probe_result, bind_interface,
                    handler_should_terminate, daemonVars >>

\* The steps of the thread that called start().
ManagerStep ==
    \/ Start
    \/ \E outcome \in Outcomes, lib_closes \in BOOLEAN :
          Attempt(outcome, lib_closes)
    \/ ReturnFromStartDaemon
    \/ \E probe_ub \in ProbeChoices, stop_ub \in StopChoices :
          Probe(probe_ub, stop_ub)
    \/ \E stop_ub \in StopChoices : Poll(stop_ub)

NextDaemon ==
    \/ ManagerStep
    \/ DescriptorLost
    \/ PredicateChanges
    \/ CertificateChanges

SpecDaemon == InitDaemon /\ [][NextDaemon]_vars

\* The thread that called start() keeps running: it is never suspended
\* forever at a step it can take.
SpecDaemonFair == SpecDaemon /\ WF_vars(ManagerStep)

\* ------------------------------------------------------------ claims

\* The source of connection c passes the allow-list.
SourceAllowed(c) == is_ip_allowed(allowed_ips, request[c].peer)

\* The registered controllers whose validPath is true of c's request.
Matching(c) ==
    { i \in 1..Len(controllers) :
         /\ controllers[i] # NullController
         /\ validPath(controllers[i], request[c].path, request[c].method) }

\* The step is an invocation of request_handler for connection c.
Invoked(c) == invocations'[c] = invocations[c] + 1

\* The ConnectionStates created for connection c, alive or not.
StatesOf(h, c) == { p \in DOMAIN h : h[p].owner = c }

EmptyResponse(status, q) ==
    /\ Len(q) = 1
    /\ q[1].status = status
    /\ q[1].body = ""
    /\ q[1].headers = << >>

\* C1: a request from an allowed source that several controllers match is
\* handled by the matching controller registered first, and by no other:
\* handleRequest is called on exactly the least matching index.
C1_FirstMatchWins ==
    \A c \in ConnIds :
       (last.kind = "request" /\ last.conn = c /\ SourceAllowed(c)
           /\ Matching(c) # {})
       => /\ last.handler \in Matching(c)
          /\ \A j \in Matching(c) : last.handler <= j

C1_Witness ==
    /\ last.kind = "request"
    /\ SourceAllowed(last.conn)
    /\ Cardinality(Matching(last.conn)) >= 2
    /\ last.handler # 0
    /\ \E j \in Matching(last.conn) : j > last.handler

\* C2: an invocation for a source the allow-list denies queues an empty 403
\* response and calls no controller's validPath or handleRequest; the slot of
\* such a connection stays empty and no ConnectionState is ever created for it.
C2_DeniedBeforeDispatch ==
    \A c \in ConnIds :
       (phase[c] # "idle" /\ ~SourceAllowed(c))
       => /\ slot[c] = 0
          /\ StatesOf(heap, c) = {}
          /\ builds[c] = 0
          /\ (last.kind = "request" /\ last.conn = c)
             => /\ EmptyResponse(MHD_HTTP_FORBIDDEN, last.queue)
                /\ last.consulted = << >>
                /\ last.handler = 0
                /\ ~last.built
                /\ ~last.created

C2_Witness ==
    /\ last.kind = "request"
    /\ ~SourceAllowed(last.conn)
    /\ Matching(last.conn) # {}
    /\ EmptyResponse(MHD_HTTP_FORBIDDEN, last.queue)
    /\ allowed_ips = << "10.0.0.1" >>
    /\ request[last.conn].peer.sa_family = "AF_INET6"

\* C3: an invocation for an allowed source whose request no registered
\* controller matches (the list may be empty) queues an empty 404 response
\* and calls no handleRequest; the slot of such a connection stays empty and
\* no ConnectionState exists for it, so its completion event deletes nothing.
C3_NotFound ==
    \A c \in ConnIds :
       (phase[c] # "idle" /\ SourceAllowed(c) /\ Matching(c) = {})
       => /\ slot[c] = 0
          /\ StatesOf(heap, c) = {}
          /\ builds[c] = 0
          /\ (last.kind = "request" /\ last.conn = c)
             => /\ EmptyResponse(MHD_HTTP_NOT_FOUND, last.queue)
                /\ last.handler = 0
                /\ ~last.built
                /\ ~last.created

C3_Witness ==
    /\ last.kind = "complete"
    /\ phase[last.conn] = "completed"
    /\ SourceAllowed(last.conn)
    /\ Matching(last.conn) = {}
    /\ invocations[last.conn] >= 1
    /\ Len(controllers) >= 1
    /\ heap = << >>

\* The entries of an allow-list.
Entries(ips) == { ips[i] : i \in DOMAIN ips }

\* C4: the filter admits an address exactly when the list holds the entry
\* "*", the entry "all" or an entry equal to the address; "ALL" is an
\* ordinary entry and the empty list admits nothing.
C4_AllowListExact ==
    probe_result # "unasked"
    => /\ (probe_result = "allowed")
          <=> ( \/ "*" \in Entries(allowed_ips)
                \/ "all" \in Entries(allowed_ips)
                \/ probe_ip \in Entries(allowed_ips) )
       /\ (Entries(allowed_ips) = {"ALL"} /\ probe_ip # "ALL")
          => probe_result = "denied"
       /\ allowed_ips = << >> => probe_result = "denied"

C4_Witness ==
    /\ probe_result = "denied"
    /\ allowed_ips = << "ALL", "10.0.0.1" >>
    /\ probe_ip = "10.0.0.2"

\* C5 as stated: a list with "*" admits every address, and a list without
\* "*" rejects every address that is not one of its entries.
C5_Original ==
    probe_result # "unasked"
    => /\ "*" \in Entries(allowed_ips) => probe_result = "allowed"
       /\ ("*" \notin Entries(allowed_ips) /\ probe_ip \notin Entries(allowed_ips))
          => probe_result = "denied"

\* C5, amended: a list with "*" admits every address, and a list with
\* neither "*" nor "all" rejects every address that is not one of its entries.
C5_WildcardOrListed ==
    probe_result # "unasked"
    => /\ "*" \in Entries(allowed_ips) => probe_result = "allowed"
       /\ ( /\ "*" \notin Entries(allowed_ips)
            /\ "all" \notin Entries(allowed_ips)
            /\ probe_ip \notin Entries(allowed_ips) )
          => probe_result = "denied"

C5_Witness ==
    /\ probe_result = "denied"
    /\ allowed_ips = << "10.0.0.1", "ALL" >>
    /\ probe_ip = "10.0.0.2"

\* The peer of connection c has no client address or a family other than
\* AF_INET and AF_INET6.
UnknownPeer(c) ==
    \/ ~request[c].peer.has
    \/ request[c].peer.sa_family \notin {"AF_INET", "AF_INET6"}

\* C6 as stated: a request of a peer with no usable address is answered 403
\* and dispatched to no controller, whatever the allow-list.
C6_Original ==
    \A c \in ConnIds :
       (last.kind = "request" /\ last.conn = c /\ UnknownPeer(c))
       => /\ EmptyResponse(MHD_HTTP_FORBIDDEN, last.queue)
          /\ last.consulted = << >>
          /\ last.handler = 0

\* C6, amended: the address of such a peer is the empty string, so its
\* request is answered 403 and dispatched to no controller exactly when the
\* allow-list holds none of "*", "all" and the empty string; under the
\* default list ["*"] it is routed like any other request.
C6_UnknownPeerDenied ==
    \A c \in ConnIds :
       (last.kind = "request" /\ last.conn = c /\ UnknownPeer(c))
       => IF Entries(allowed_ips) \cap {"*", "all", ""} = {}
          THEN /\ EmptyResponse(MHD_HTTP_FORBIDDEN, last.queue)
               /\ last.consulted = << >>
               /\ last.handler = 0
               /\ slot[c] = 0
          ELSE /\ ~EmptyResponse(MHD_HTTP_FORBIDDEN, last.queue)
               /\ Matching(c) # {} => last.handler # 0
               /\ Matching(c) = {}
                  => EmptyResponse(MHD_HTTP_NOT_FOUND, last.queue)

C6_Witness ==
    /\ last.kind = "request"
    /\ UnknownPeer(last.conn)
    /\ request[last.conn].peer.has
    /\ allowed_ips = << "10.0.0.1" >>
    /\ Matching(last.conn) # {}
    /\ EmptyResponse(MHD_HTTP_FORBIDDEN, last.queue)

\* C7: a connection has at most one ConnectionState.  It is created by the
\* first invocation that reaches a controller, when the slot is empty, and
\* attached to the slot; every later invocation finds it there.
C7_OneStatePerConnection ==
    \A c \in ConnIds :
       /\ Cardinality(StatesOf(heap, c)) <= 1
       /\ slot[c] # 0 => StatesOf(heap, c) = {slot[c]}
       /\ slot[c] = 0 => StatesOf(heap, c) = {}
       /\ (last.kind = "request" /\ last.conn = c)
          => /\ last.created <=> (last.handler # 0 /\ invocations[c] = 1)
             /\ last.handler # 0
                => /\ slot[c] # 0
                   /\ heap[slot[c]].conroller = last.handler

C7_Witness ==
    /\ last.kind = "request"
    /\ last.handler # 0
    /\ ~last.created
    /\ invocations[last.conn] = MaxInvocations
    /\ Cardinality(StatesOf(heap, last.conn)) = 1
    /\ heap[slot[last.conn]].alive

\* C8: a ConnectionState is alive and undeleted until the completion event
\* of its connection, and deleted exactly once from then on, whatever the
\* connection did before: sent a response, was aborted by the sentinel or by
\* the wait ceiling, or was still waiting for a body.
C8_DestroyedOnceAtCompletion ==
    \A p \in DOMAIN heap :
       IF phase[heap[p].owner] = "completed"
       THEN ~heap[p].alive /\ heap[p].deletes = 1
       ELSE heap[p].alive /\ heap[p].deletes = 0

\* A state destroyed after its connection was aborted by the wait ceiling.
C8_Witness ==
    /\ last.kind = "complete"
    /\ slot[last.conn] # 0
    /\ heap[slot[last.conn]].deletes = 1
    /\ ~heap[slot[last.conn]].alive
    /\ heap[slot[last.conn]].request_waiting_loop_counter > waiting_loops

\* The connection's request is a POST that reaches a controller.
HandledPost(c) ==
    /\ request[c].method = "POST"
    /\ SourceAllowed(c)
    /\ Matching(c) # {}

\* C9: the first invocation of a handled POST, without upload data, returns
\* MHD_YES, does not call createResponse and queues nothing; when the next
\* invocation brings upload data it calls createResponse, for the first and
\* only time, and (unless the result is the abort sentinel) caches the body
\* and the headers it returned and queues them.
C9_PostWaitsThenBuilds ==
    [][ \A c \in ConnIds :
           /\ (Invoked(c) /\ HandledPost(c) /\ invocations[c] = 0
                 /\ ~last'.has_data)
              => /\ last'.ret = MHD_YES
                 /\ ~last'.built
                 /\ last'.queue = NoQueue
                 /\ builds'[c] = 0
           /\ (Invoked(c) /\ HandledPost(c) /\ invocations[c] = 1
                 /\ last.kind = "request" /\ ~last.has_data
                 /\ last'.has_data)
              => /\ last'.built
                 /\ builds'[c] = 1
                 /\ last'.result.response_code # MHD_NO
                    => /\ heap'[slot'[c]].response_data = last'.result.body
                       /\ heap'[slot'[c]].response_headers = last'.result.headers
                       /\ Len(last'.queue) = 1
                       /\ last'.queue[1].body = last'.result.body
                       /\ last'.queue[1].headers = last'.result.headers
                       /\ last'.ret = MHD_YES ]_vars

C9_Witness ==
    /\ last.kind = "request"
    /\ HandledPost(last.conn)
    /\ invocations[last.conn] = 2
    /\ last.has_data
    /\ last.built
    /\ builds[last.conn] = 1
    /\ heap[slot[last.conn]].request_waiting_loop_counter = 1
    /\ heap[slot[last.conn]].response_data = "ok"
    /\ heap[slot[last.conn]].response_headers = TwoHeaders
    /\ heap[slot[last.conn]].response_sent

\* C10: while a handled POST was invoked only without upload data, the k-th
\* invocation leaves the wait counter at k, calls no createResponse and queues
\* nothing; it returns MHD_YES for k up to the ceiling and MHD_NO for
\* k = ceiling + 1, after which the handler is not invoked again.
C10_WaitCeiling ==
    \A c \in ConnIds :
       (last.kind = "request" /\ last.conn = c /\ HandledPost(c)
           /\ empty_only[c])
       => LET k == invocations[c]
          IN  /\ heap[slot[c]].request_waiting_loop_counter = k
              /\ heap[slot[c]].response_data = ""
              /\ ~last.built
              /\ builds[c] = 0
              /\ last.queue = NoQueue
              /\ k <= waiting_loops + 1
              /\ k <= waiting_loops => (last.ret = MHD_YES /\ phase[c] = "open")
              /\ k = waiting_loops + 1
                 => (last.ret = MHD_NO /\ phase[c] = "closing")

\* A ceiling of 1: the first empty invocation was tolerated, the second aborts.
C10_Witness ==
    /\ last.kind = "request"
    /\ HandledPost(last.conn)
    /\ empty_only[last.conn]
    /\ waiting_loops = 1
    /\ invocations[last.conn] = 2
    /\ last.ret = MHD_NO

\* The connection's request reaches a controller.
Handled(c) == SourceAllowed(c) /\ Matching(c) # {}

\* The ConnectionState of connection c before a step: the one in its slot, or
\* the one the step is about to create.
StateBefore(c) ==
    IF slot[c] # 0 THEN heap[slot[c]] ELSE create_state(0, c)

\* C11 as stated: createResponse is called at most once for a connection,
\* and exactly once for a connection whose handler queued a response.
C11_Original ==
    \A c \in ConnIds :
       /\ builds[c] <= 1
       /\ (last.kind = "request" /\ last.conn = c /\ last.handler # 0
             /\ last.queue # NoQueue)
          => builds[c] = 1

\* C12 as stated: once createResponse's body and headers were stored in the
\* state, every response queued for the connection carries the stored body
\* and the stored header list.
C12_Original ==
    [][ \A c \in ConnIds :
           (Invoked(c) /\ Handled(c) /\ builds[c] >= 1
              /\ last'.queue # NoQueue)
           => /\ last'.queue[1].body = StateBefore(c).response_data
              /\ last'.queue[1].headers = StateBefore(c).response_headers ]_vars

\* C13 as stated: once a body is stored in the state, every later invocation
\* queues the stored response and does not call createResponse, also after
\* response_sent became true.
C13_Original ==
    [][ \A c \in ConnIds :
           (Invoked(c) /\ Handled(c) /\ builds[c] >= 1)
           => /\ ~last'.built
              /\ Len(last'.queue) = 1
              /\ last'.queue[1].body = StateBefore(c).response_data
              /\ last'.queue[1].headers = StateBefore(c).response_headers ]_vars

\* C13, amended: once a non-empty body is cached, an invocation made while
\* response_sent is false queues exactly the cached body and headers with
\* status 200 and does not call createResponse; an invocation made once
\* response_sent is true queues nothing, does not call createResponse and
\* returns MHD_YES.
C13_ResendUntilSent ==
    [][ \A c \in ConnIds :
           (Invoked(c) /\ slot[c] # 0 /\ heap[slot[c]].response_data # "")
           => /\ ~last'.built
              /\ builds'[c] = builds[c]
              /\ last'.ret = MHD_YES
              /\ heap'[slot'[c]].response_data = heap[slot[c]].response_data
              /\ heap'[slot'[c]].response_headers = heap[slot[c]].response_headers
              /\ IF heap[slot[c]].response_sent
                 THEN last'.queue = NoQueue
                 ELSE /\ Len(last'.queue) = 1
                      /\ last'.queue[1].status = MHD_HTTP_OK
                      /\ last'.queue[1].body = heap[slot[c]].response_data
                      /\ last'.queue[1].headers = heap[slot[c]].response_headers ]_vars

\* A cached response queued a second time after the transport refused it.
C13_Witness ==
    /\ last.kind = "request"
    /\ invocations[last.conn] = 2
    /\ builds[last.conn] = 1
    /\ ~last.built
    /\ Len(last.queue) = 1
    /\ last.queue[1].body = "ok"
    /\ last.queue[1].headers = TwoHeaders
    /\ last.queue[1].accepted

\* C14: when createResponse returns MHD_NO the invocation returns MHD_NO,
\* queues nothing, and leaves the state's body, headers and response_sent as
\* they were: nothing createResponse produced is kept.
C14_AbortCachesNothing ==
    [][ \A c \in ConnIds :
           (Invoked(c) /\ last'.built /\ last'.result.response_code = MHD_NO)
           => /\ last'.ret = MHD_NO
              /\ last'.queue = NoQueue
              /\ phase'[c] = "closing"
              /\ heap'[slot'[c]].response_data = StateBefore(c).response_data
              /\ heap'[slot'[c]].response_headers = StateBefore(c).response_headers
              /\ heap'[slot'[c]].response_sent = StateBefore(c).response_sent ]_vars

C14_Witness ==
    /\ last.kind = "request"
    /\ last.built
    /\ last.result.response_code = MHD_NO
    /\ last.result.body = "ok"
    /\ last.ret = MHD_NO
    /\ heap[slot[last.conn]].response_data = ""
    /\ heap[slot[last.conn]].response_headers = << >>

\* C15: response_sent of a state never goes back to false; it becomes true
\* only in an invocation whose queued response the transport accepted; and
\* an invocation that finds it true queues nothing and calls no
\* createResponse, so it becomes true at most once.
C15_SentOnce ==
    [][ /\ \A p \in DOMAIN heap :
              heap[p].response_sent => heap'[p].response_sent
        /\ \A c \in ConnIds :
              /\ (slot'[c] # 0 /\ heap'[slot'[c]].response_sent
                    /\ ~StateBefore(c).response_sent)
                 => /\ Invoked(c)
                    /\ Len(last'.queue) = 1
                    /\ last'.queue[1].accepted
              /\ (Invoked(c) /\ StateBefore(c).response_sent)
                 => /\ last'.queue = NoQueue
                    /\ ~last'.built
                    /\ builds'[c] = builds[c]
                    /\ last'.ret = MHD_YES
                    /\ heap'[slot'[c]] = heap[slot[c]] ]_vars

\* An invocation that found the response already sent.
C15_Witness ==
    /\ last.kind = "request"
    /\ last.handler # 0
    /\ invocations[last.conn] >= 2
    /\ heap[slot[last.conn]].response_sent
    /\ last.queue = NoQueue
    /\ ~last.built

\* ------------------------------------------------------------ claims on
\* the daemon lifecycle

\* A run of start_daemon that the supervision loop made has just returned.
RestartReturned == pc = "poll" /\ caller = "loop"

\* An engine is running on the manager's handle.
Live == daemon_ # 0 /\ engines[daemon_].running

\* C16: when the probe found the descriptor of a previously started daemon
\* invalid, and no stage of the restart failed, the restart ends with a
\* newly created listening socket and a newly started, running engine.
C16_Original ==
    (RestartReturned /\ run.restart /\ run.waits = 0)
    => /\ Live
       /\ run.started >= 1
       /\ run.listening >= 1

\* C17: if a termination predicate is configured and from some point on
\* returns true, start() eventually stops the daemon and returns, whatever
\* stages of the start sequence fail meanwhile, even when they fail forever.
\* The formula lets the thread end in either way, by returning or by the
\* build's failure on a freed handle, so a behaviour that violates it is one
\* in which start() runs forever.
C17_Original ==
    (<>[](handler_should_terminate = "yes"))
    => <>(pc \in {"returned", "crashed"})

\* C18: start() returns only from a supervision cycle whose poll of a
\* configured termination predicate returned true, and at its return no
\* engine is running; without a predicate start() never returns.
C18_ReturnsOnlyOnTruePoll ==
    /\ pc = "returned"
       => /\ polled
          /\ handler_should_terminate = "yes"
          /\ \A e \in DOMAIN engines : ~engines[e].running
    /\ handler_should_terminate = "unset" => pc # "returned"

C18_Witness ==
    /\ pc = "returned"
    /\ daemon_ # 0
    /\ engines[daemon_].stops = 1
    /\ leaked = 1

\* C19: one run of start_daemon makes at most 12 passes, whatever the
\* stage at which a pass fails.
C19_Original == run.attempts <= StartAttempts

\* C20: when the first k passes of a run fail at the address bind and pass
\* k+1 succeeds at every stage, the run has made exactly k backoff waits,
\* created exactly k+1 sockets and closed k of them, and the engine runs on
\* the socket of pass k+1.
C20_BindRetries ==
    (run.started >= 1 /\ run.started < MaxCounted /\ run.bind_only)
    => /\ run.waits = run.started - 1
       /\ run.sockets = run.started
       /\ run.closed = run.started - 1
       /\ run.listening = run.started
       /\ run.attempts = run.started
       /\ daemon_ # 0
       /\ engines[daemon_].running

C20_Witness ==
    /\ pc = "supervise"
    /\ run.bind_only
    /\ run.started = 4
    /\ run.waits = 3
    /\ run.closed = 3
    /\ engines[daemon_].running

\* Every pass of the run so far created, bound and listened on a socket
\* and then failed to start the engine.
EngineOnly ==
    /\ run.attempts >= 1
    /\ run.sockets = run.attempts
    /\ run.closed = 0
    /\ run.started = 0

\* C21: every failed engine start is followed by one backoff wait and takes
\* one attempt from the budget, so a run in which only the engine start
\* fails ends after a bounded number of passes with no engine running.
C21_EngineFailureCounts ==
    EngineOnly
    => /\ run.waits = run.attempts
       /\ attempts = StartAttempts - run.attempts
       /\ attempts >= -1
       /\ attempts = -1 => ~LoopCondition(daemon_, attempts)
       /\ daemon_ = 0
       /\ \A e \in DOMAIN engines : ~engines[e].running

C21_Witness ==
    /\ EngineOnly
    /\ pc = "supervise"
    /\ attempts = -1
    /\ run.waits = StartAttempts + 1
    /\ daemon_ = 0

\* The positions in calls of the calls named name.
At(calls, name) == { i \in DOMAIN calls : calls[i].call = name }

\* The calls of a pass that are given a descriptor.
OnDescriptor == {"setsockopt", "bind", "listen", "MHD_start_daemon", "close"}

\* C22: a pass that fails at the interface, the bind or the listen stage
\* closes the socket it created before it waits, and every pass works only
\* on the socket it created itself, which no earlier pass of the run had:
\* the run's count of sockets goes up by one with every socket created.
C22_FreshSocketEachPass ==
    [][ \A outcome \in Outcomes, lib_closes \in BOOLEAN :
           (Attempt(outcome, lib_closes) /\ run.sockets < MaxCounted)
           => LET fd == run.sockets + 1
                  calls == PassCalls(outcome, bind_interface, certificate, fd)
              IN  /\ calls[1].call = "socket"
                  /\ At(calls, "socket") = {1}
                  /\ \A i \in DOMAIN calls :
                        calls[i].call \in OnDescriptor
                        => /\ calls[i].fd = calls[1].fd
                           /\ calls[i].fd \notin 1..run.sockets
                  /\ outcome \in {"interface", "bind", "listen"}
                     => /\ \E i \in At(calls, "close") :
                              \E j \in At(calls, "sleepy") :
                                 /\ i < j
                                 /\ \A k \in DOMAIN calls :
                                       k > i => calls[k].call \notin OnDescriptor
                        /\ Cardinality(At(calls, "close")) = 1
                        /\ run'.closed = run.closed + 1
                  /\ outcome # "socket" => run'.sockets = fd
       ]_vars

C22_Witness ==
    /\ pc = "start_daemon"
    /\ ~run.bind_only
    /\ run.closed >= 2
    /\ run.sockets = run.closed + 1
    /\ run.started = run.attempts
    /\ run.listening = run.sockets
    /\ bind_interface # ""

\* The engines that are running.
RunningEngines == { e \in DOMAIN engines : engines[e].running }

\* C23: at most one engine is running, and no socket of a pass that did not
\* end with a running engine is left open, a pass whose engine start failed
\* included.
C23_Original ==
    /\ Cardinality(RunningEngines) <= 1
    /\ leaked = 0

\* A run of start_daemon has used up its attempts without starting an
\* engine, or the supervision loop is past such a run.
Exhausted == daemon_ = 0 /\ attempts < 0

\* C24: a run that exhausts its attempts leaves no handle and no engine;
\* from then on every supervision cycle runs the start sequence again, and
\* the poll that follows ends start() only when the predicate is true: the
\* thread neither returns nor dies because of the failure.
C24_RetryAfterExhaustion ==
    [][ Exhausted
        => /\ \A e \in DOMAIN engines : ~engines[e].running
           /\ pc \in {"start_daemon", "supervise", "poll"}
           /\ (pc = "start_daemon" /\ pc' # pc)
              => /\ pc' = IF caller = "start" THEN "supervise" ELSE "poll"
                 /\ daemon_' = 0
           /\ (pc = "supervise" /\ pc' # pc)
              => /\ pc' = "start_daemon"
                 /\ caller' = "loop"
                 /\ attempts' = StartAttempts
                 /\ run' = NoRun
                 /\ daemon_' = 0
           /\ (pc = "poll" /\ pc' # pc)
              => pc' = IF handler_should_terminate = "yes"
                       THEN "returned" ELSE "supervise"
      ]_vars

C24_Witness ==
    /\ pc = "start_daemon"
    /\ caller = "loop"
    /\ ~run.restart
    /\ daemon_ = 0
    /\ run.attempts >= 2
    /\ leaked = 1
    /\ handler_should_terminate = "no"

\* C26: a pass that starts an engine starts the TLS variant exactly when
\* options().certificate has a value at that moment, and either variant is
\* given the socket the pass created, request_handler and
\* request_complete_handler.
C26_TlsIffCertificate ==
    [][ \A lib_closes \in BOOLEAN :
           Attempt("ok", lib_closes)
           => LET calls == PassCalls("ok", bind_interface, certificate,
                                     Inc(run.sockets, MaxCounted))
                  e == EngineCall(calls)
              IN  /\ Cardinality(At(calls, "MHD_start_daemon")) = 1
                  /\ "MHD_USE_SSL" \in e.flags <=> certificate
                  /\ "MHD_USE_EPOLL_INTERNALLY" \in e.flags
                  /\ e.fd = calls[1].fd
                  /\ e.handler = "request_handler"
                  /\ e.notify = "request_complete_handler"
                  /\ daemon_' \in DOMAIN engines'
                  /\ engines'[daemon_'].running
                  /\ engines'[daemon_'].tls = certificate
      ]_vars

C26_Witness ==
    /\ daemon_ # 0
    /\ engines[daemon_].running
    /\ engines[daemon_].tls
    /\ ~certificate
    /\ run.started >= 2

\* The step is the completion event of connection c.
Completes(c) == phase[c] # "completed" /\ phase'[c] = "completed"

\* Nothing of connection o changes in the step: its slot, its phase, its
\* counts, and every ConnectionState created for it.
Untouched(o) ==
    /\ slot'[o] = slot[o]
    /\ phase'[o] = phase[o]
    /\ request'[o] = request[o]
    /\ invocations'[o] = invocations[o]
    /\ builds'[o] = builds[o]
    /\ StatesOf(heap', o) = StatesOf(heap, o)
    /\ \A p \in StatesOf(heap, o) : heap'[p] = heap[p]

\* What the ConnectionState s holds for its connection.
Content(s) ==
    << s.response_sent, s.response_data, s.response_headers,
       s.request_waiting_loop_counter, s.alive, s.deletes >>

\* The step's outcome for connection c is the one handleRequest gives on
\* the connection's own state alone.
AsIfAlone(c) ==
    \E cr \in BuildResults \cup {NoBuild}, accept \in BOOLEAN :
       LET out == handleRequest(StateBefore(c), request[c].method,
                                last'.has_data, cr, accept, waiting_loops)
       IN  /\ last'.ret = out.ret
           /\ last'.queue = out.queue
           /\ last'.built = out.built
           /\ last'.built => last'.result = cr
           /\ last'.created = (slot[c] = 0)
           /\ builds'[c] = builds[c] + (IF out.built THEN 1 ELSE 0)
           /\ Content(heap'[slot'[c]]) = Content(out.st)
           /\ heap'[slot'[c]].owner = c

\* C25: in every interleaving of the invocations and completion events of
\* two connections, a step for one connection leaves everything of the
\* other untouched, and its outcome (return value, response queued,
\* createResponse call, state created or destroyed) is the one its own
\* state alone determines.
C25_ConnectionsIndependent ==
    [][ \A c \in ConnIds :
           /\ Invoked(c)
              => /\ \A o \in ConnIds \ {c} : Untouched(o)
                 /\ AsIfAlone(c)
           /\ Completes(c)
              => /\ \A o \in ConnIds \ {c} : Untouched(o)
                 /\ \A p \in StatesOf(heap, c) :
                       heap'[p] = IF p = slot[c]
                                  THEN handleComplete(heap, p)[p]
                                  ELSE heap[p]
      ]_vars

C25_Witness ==
    /\ phase["c1"] = "completed"
    /\ phase["c2"] = "open"
    /\ slot["c1"] # 0 /\ slot["c2"] # 0
    /\ slot["c1"] > slot["c2"]
    /\ ~heap[slot["c1"]].alive
    /\ heap[slot["c2"]].alive
    /\ heap[slot["c2"]].response_data = "ok"
    /\ ~heap[slot["c2"]].response_sent
    /\ heap[slot["c1"]].request_waiting_loop_counter = 2
    /\ last.kind = "request" /\ last.conn = "c2"

\* C27: an invocation of a handled request whose method is not "POST" never
\* waits: the wait counter stays 0, createResponse is called at once when
\* nothing is cached (so on a first invocation without upload data), and
\* the only abort is the one createResponse asks for.
C27_OnlyPostWaits ==
    [][ \A c \in ConnIds :
           (Invoked(c) /\ Handled(c) /\ request[c].method # "POST")
           => /\ heap'[slot'[c]].request_waiting_loop_counter = 0
              /\ (~StateBefore(c).response_sent
                     /\ StateBefore(c).response_data = "")
                 => last'.built
              /\ last'.ret = MHD_NO
                 => /\ last'.built
                    /\ last'.result.response_code = MHD_NO
      ]_vars

C27_Witness ==
    /\ last.kind = "request"
    /\ Handled(last.conn)
    /\ request[last.conn].method = "GET"
    /\ invocations[last.conn] = 1
    /\ ~last.has_data
    /\ last.built
    /\ last.ret = MHD_YES
    /\ heap[slot[last.conn]].request_waiting_loop_counter = 0

\* C28: when MHD_queue_response refuses the response, handleRequest still
\* returns MHD_YES, response_sent stays false and the body and headers it
\* tried to queue stay cached; an invocation that finds a non-empty body
\* cached and not sent queues that body and those headers again and does
\* not call createResponse.
C28_RefusedQueueKeepsCache ==
    [][ \A c \in ConnIds :
           (Invoked(c) /\ Handled(c))
           => LET before == StateBefore(c)
                  after == heap'[slot'[c]]
                  q == last'.queue
              IN  /\ (q # NoQueue /\ ~q[1].accepted)
                     => /\ last'.ret = MHD_YES
                        /\ ~after.response_sent
                        /\ after.response_data = q[1].body
                        /\ after.response_headers = q[1].headers
                        /\ ~last'.built
                           => /\ after.response_data = before.response_data
                              /\ after.response_headers
                                    = before.response_headers
                  /\ (~before.response_sent /\ before.response_data # "")
                     => /\ ~last'.built
                        /\ builds'[c] = builds[c]
                        /\ Len(q) = 1
                        /\ q[1].body = before.response_data
                        /\ q[1].headers = before.response_headers
      ]_vars

C28_Witness ==
    /\ last.kind = "request"
    /\ Handled(last.conn)
    /\ invocations[last.conn] = 3
    /\ builds[last.conn] = 1
    /\ ~last.built
    /\ Len(last.queue) = 1
    /\ ~last.queue[1].accepted
    /\ last.queue[1].body = "ok"
    /\ last.ret = MHD_YES
    /\ ~heap[slot[last.conn]].response_sent

\* The step is an invocation, without upload data, of a handled POST that
\* has a non-empty body cached.
CachedPostNoData(c) ==
    /\ Invoked(c)
    /\ HandledPost(c)
    /\ ~last'.has_data
    /\ slot[c] # 0
    /\ heap[slot[c]].response_data # ""

\* The wait counter of no ConnectionState ever goes down.
CounterMonotone ==
    \A p \in DOMAIN heap :
       heap'[p].request_waiting_loop_counter
          >= heap[p].request_waiting_loop_counter

\* C29 as stated: once a non-empty body is cached for a POST, an invocation
\* without upload data does not wait (counter unchanged, no abort) and
\* queues the cached response; the wait counter never decreases.
C29_Original ==
    [][ /\ CounterMonotone
        /\ \A c \in ConnIds :
              CachedPostNoData(c)
              => /\ heap'[slot[c]].request_waiting_loop_counter
                       = heap[slot[c]].request_waiting_loop_counter
                 /\ last'.ret = MHD_YES
                 /\ Len(last'.queue) = 1
                 /\ last'.queue[1].body = heap[slot[c]].response_data
                 /\ last'.queue[1].headers = heap[slot[c]].response_headers
      ]_vars

\* C29, amended: as above, but the cached response is queued only while
\* response_sent is false; once it is true the invocation queues nothing.
C29_NoWaitOnceCached ==
    [][ /\ CounterMonotone
        /\ \A c \in ConnIds :
              CachedPostNoData(c)
              => /\ heap'[slot[c]].request_waiting_loop_counter
                       = heap[slot[c]].request_waiting_loop_counter
                 /\ last'.ret = MHD_YES
                 /\ ~last'.built
                 /\ IF heap[slot[c]].response_sent
                    THEN last'.queue = NoQueue
                    ELSE /\ Len(last'.queue) = 1
                         /\ last'.queue[1].body = heap[slot[c]].response_data
                         /\ last'.queue[1].headers
                               = heap[slot[c]].response_headers
      ]_vars

C29_Witness ==
    /\ last.kind = "request"
    /\ HandledPost(last.conn)
    /\ invocations[last.conn] = 3
    /\ ~last.has_data
    /\ ~last.built
    /\ builds[last.conn] = 1
    /\ Len(last.queue) = 1
    /\ last.queue[1].body = "ok"
    /\ heap[slot[last.conn]].request_waiting_loop_counter = 1

\* C30: every response a DynamicController queues has status 200, whatever
\* status createResponse returned; that status is not kept in the
\* ConnectionState, which takes only the body and the headers.
C30_AlwaysOk ==
    /\ (last.kind = "request" /\ last.handler # 0)
       => /\ \A i \in DOMAIN last.queue : last.queue[i].status = MHD_HTTP_OK
          /\ (last.built /\ last.result.response_code # MHD_NO)
             => /\ Len(last.queue) = 1
                /\ heap[slot[last.conn]].response_data = last.result.body
                /\ heap[slot[last.conn]].response_headers
                      = last.result.headers
    /\ \A p \in DOMAIN heap : "response_code" \notin DOMAIN heap[p]

C30_Witness ==
    /\ last.kind = "request"
    /\ last.handler # 0
    /\ last.built
    /\ last.result.response_code = MHD_HTTP_NOT_FOUND
    /\ Len(last.queue) = 1
    /\ last.queue[1].status = MHD_HTTP_OK
    /\ last.queue[1].body = "no"
    /\ last.queue[1].accepted

\* C31: no engine handle is given to MHD_stop_daemon more than once, and
\* none is probed for liveness after it was stopped; when start() has
\* returned, every engine that was started has been stopped exactly once.
C31_Original ==
    /\ \A e \in DOMAIN engines :
          /\ engines[e].stops <= 1
          /\ ~engines[e].probed_after_stop
    /\ pc = "returned" => \A e \in DOMAIN engines : engines[e].stops = 1

====
